---------------------------- MODULE Spec2Model ----------------------------
(***************************************************************************)
(* Lamport-clock mutual exclusion of purplleee/lamport_algorithm.          *)
(*                                                                         *)
(* Every process runs a requester thread (client.py calls                  *)
(* ExclusionManagerServicer.request_critical_section) and, per calling     *)
(* peer, one gRPC handler thread (RequestEntry / ReleaseEntry).  The       *)
(* clock is guarded by LogicalClock.lock and the mutual exclusion state by *)
(* MutualExclusionState.lock, so one atomic step of the model is one       *)
(* locked region of the code: a clock tick/update, or one method of        *)
(* MutualExclusionState.  The RPCs are synchronous: the requester blocks   *)
(* until the peer's handler has returned.                                  *)
(*                                                                         *)
(* Process ids "Process-1" .. "Process-N" are modelled by 1 .. N: for the  *)
(* single-digit ids the launcher hands out (MAX_PROCESSES = 5) Python's    *)
(* string order on them is the order of the numbers.  Proc holds the ids   *)
(* of the launcher's default configuration; num_processes of them are      *)
(* launched, the others never run.                                         *)
(*                                                                         *)
(* Specifications, all over the same variables (what a specification does  *)
(* not use keeps its initial value):                                       *)
(*   Spec       the protocol, every call delivered                         *)
(*   StatusSpec the protocol with GetStatus queries                        *)
(*   FairSpec   Spec with fair scheduling of the threads                   *)
(*   LossySpec  the protocol with peers that cannot be reached             *)
(*   ClockSpec  one clock, called by one thread                            *)
(*   ThreadSpec one clock, called by several threads                       *)
(*   ChainSpec  the clocks of three processes exchanging timestamps        *)
(*   OrderSpec  Request records compared with __lt__                       *)
(*   QueueSpec  add_request / remove_request called directly               *)
(*   AgrawalaSpec  AgrawalaClock objects of two processes                  *)
(***************************************************************************)
EXTENDS Integers, Sequences, FiniteSets, TLC

\* ------------------------------------------------------------------ bounds
DefaultProcesses == 3
NumProcesses == 2
MaxRequests == 3
MaxFairRequests == 2
MaxLossyRequests == 1

\* calls of request_critical_section in StaleSpec, all processes together
MaxStaleRequests == 3
MaxCalls == 5
MaxReceived == 4
MaxInitialTime == 2
NumThreads == 2
MaxThreadCalls == 3
MaxThreadReceived == 2
MaxEvents == 3
MaxQueueTime == 2
MaxStatusCalls == 2
NumAgrawala == 2
MaxAgrawalaCalls == 3
MaxAgrawalaTime == 3

Proc == 1 .. DefaultProcesses
Launched == 1 .. NumProcesses
Threads == 1 .. NumThreads
Clocks == {"A", "B", "C"}
Agrawala == 1 .. NumAgrawala
Resources == {"ResourceA", "ResourceB"}
None == "None"

VARIABLES
    clock,               \* [Proc -> Nat]: servicer.clock.time
    request_queue,       \* [Proc -> Seq(Request)]: mutex_state.request_queue
    pending_replies,     \* [Proc -> dict resource_id -> set of process ids]
    in_critical_section, \* [Proc -> BOOLEAN]
    current_resource,    \* [Proc -> Resources \cup {None}]
    our_requests,        \* [Proc -> dict resource_id -> Request]
    pc,                  \* [Proc -> position of the requester thread]
    our_request,         \* [Proc -> Request]: local of request_critical_section
    peer_index,          \* [Proc -> index into peer_ports of the broadcast loop]
    release_timestamp,   \* [Proc -> Nat]: local of _broadcast_release
    handler,             \* [Proc -> [Proc -> handler thread serving that caller]]
    num_processes,       \* run_processes.py: the number of processes launched
    todo,                \* calls the clients still make, all processes together
    failed,              \* history: peers whose call raised in the running broadcast
    blocked_by,          \* history: holders seen in the critical section at call time
    time,                \* LogicalClock.time of the stand-alone clock
    agrawala_time,       \* AgrawalaClock.time of a clock given the same calls
    returned,            \* value returned by the last tick/update call (or -1)
    previous,            \* value returned by the call before it (or -1)
    old_time,            \* clock value when the last call started
    received_time,       \* argument of the last call (-1 for tick)
    calls,               \* number of calls made on the stand-alone clock
    lock,                \* LogicalClock.lock: the thread holding it, or 0
    thread,              \* [Threads -> position and locals of a calling thread]
    returns,             \* history: the calls that returned, in order
    initial_time,        \* history: LogicalClock.time after construction
    clock_history,       \* LogicalClockWithHistory.history
    ptime,               \* [Clocks -> Nat]: time of pA, pB, pC
    history,             \* [Clocks -> Seq]: LogicalClockWithHistory.history
    inflight,            \* timestamps sent and not yet given to update
    events,              \* number of tick calls made on pA, pB, pC
    queue,               \* request_queue of a MutualExclusionState called directly
    qcall,               \* history: the last call on it and the queue before it
    compared,            \* three Request records and the results of __lt__ on them
    status,              \* position, locals and response of the GetStatus handler
    agrawala,            \* [Agrawala -> fields of an AgrawalaClock object]
    acall,               \* history: the last call on an AgrawalaClock, its result
    acalls               \* number of calls that changed an AgrawalaClock

mutexVars == <<clock, request_queue, pending_replies, in_critical_section,
               current_resource, our_requests, pc, our_request, peer_index,
               release_timestamp, handler, num_processes, todo, failed,
               blocked_by>>
clockVars == <<time, agrawala_time, returned, previous, old_time,
               received_time, calls>>
threadVars == <<lock, thread, returns, initial_time, clock_history>>
chainVars == <<ptime, history, inflight, events>>
queueVars == <<queue, qcall>>
orderVars == <<compared>>
statusVars == <<status>>
agrawalaVars == <<agrawala, acall, acalls>>
standaloneVars == <<clockVars, threadVars, chainVars, queueVars, orderVars,
                    statusVars, agrawalaVars>>
vars == <<mutexVars, standaloneVars>>

\* ------------------------------------------------------------ LogicalClock
Max(a, b) == IF a >= b THEN a ELSE b

\* LogicalClock.tick: self.time += 1; return self.time
Tick(t) == t + 1

\* update written as max(self.time, received_time + 1)
UpdateReceivedPlusOne(t, r) == Max(t, r + 1)

\* update that takes the received timestamp without the max
UpdateNoMax(t, r) == r + 1

\* update without the increment
UpdateMaxOnly(t, r) == Max(t, r)

\* LogicalClock.update: self.time = max(self.time, received_time) + 1
Update(t, r) == Max(t, r) + 1

\* AgrawalaClock.tick and AgrawalaClock.update
AgrawalaTick(t) == t + 1
AgrawalaUpdate(t, r) == Max(t, r) + 1

\* ----------------------------------------------------------------- Request
Request(ts, p, r) == [timestamp |-> ts, process_id |-> p, resource_id |-> r]

\* no request_critical_section call is running: the local does not exist
NoRequest == Request(0, 0, None)

\* __lt__ with the timestamp comparison turned around
LaterTimestampFirst(a, b) ==
    IF a.timestamp = b.timestamp
    THEN a.process_id < b.process_id
    ELSE a.timestamp > b.timestamp

\* __lt__ without the process id as tie-breaker
TimestampOnly(a, b) == a.timestamp < b.timestamp

\* Request.__lt__
ReqLT(a, b) ==
    IF a.timestamp = b.timestamp
    THEN a.process_id < b.process_id
    ELSE a.timestamp < b.timestamp

\* ---------------------------------------------------------- dict helpers
DictSet(d, k, v) == [x \in DOMAIN d \cup {k} |-> IF x = k THEN v ELSE d[x]]
\* a del that leaves the entry in place
DictKeep(d, k) == d

DictDel(d, k) == [x \in DOMAIN d \ {k} |-> d[x]]
EmptyDict == [x \in {} |-> {}]

\* ---------------------------------------------------- MutualExclusionState
SameKey(x, p, r) == x.process_id = p /\ x.resource_id = r

\* the list comprehension of add_request / remove_request
RECURSIVE Without(_, _, _)
Without(q, p, r) ==
    IF q = <<>> THEN <<>>
    ELSE IF SameKey(Head(q), p, r) THEN Without(Tail(q), p, r)
         ELSE <<Head(q)>> \o Without(Tail(q), p, r)

\* list.sort() with Request.__lt__: a stable sort
RECURSIVE InsertSorted(_, _)
InsertSorted(q, x) ==
    IF q = <<>> THEN <<x>>
    ELSE IF ReqLT(x, Head(q)) THEN <<x>> \o q
         ELSE <<Head(q)>> \o InsertSorted(Tail(q), x)

RECURSIVE Sort(_)
Sort(q) ==
    IF q = <<>> THEN <<>>
    ELSE InsertSorted(Sort(SubSeq(q, 1, Len(q) - 1)), q[Len(q)])

\* add_request without the filter on the existing record
AddNoReplace(q, x) == Sort(Append(q, x))

\* add_request whose filter compares the resource id only
AddReplacesResource(q, x) ==
    LET Keep(y) == y.resource_id # x.resource_id
    IN Sort(Append(SelectSeq(q, Keep), x))

add_request(q, x) == Sort(Append(Without(q, x.process_id, x.resource_id), x))

\* remove_request that forgets to compare the process id
RECURSIVE RemoveByResource(_, _, _)
RemoveByResource(q, p, r) ==
    IF q = <<>> THEN <<>>
    ELSE IF Head(q).resource_id = r THEN RemoveByResource(Tail(q), p, r)
         ELSE <<Head(q)>> \o RemoveByResource(Tail(q), p, r)

\* remove_request that only looks at the first record
RemoveIfHead(q, p, r) ==
    IF q # <<>> /\ SameKey(Head(q), p, r) THEN Tail(q) ELSE q

\* remove_request that forgets to compare the resource id
RECURSIVE RemoveByProcess(_, _, _)
RemoveByProcess(q, p, r) ==
    IF q = <<>> THEN <<>>
    ELSE IF Head(q).process_id = p THEN RemoveByProcess(Tail(q), p, r)
         ELSE <<Head(q)>> \o RemoveByProcess(Tail(q), p, r)

remove_request(q, p, r) == Without(q, p, r)

\* the processes that were launched
Running == 1 .. num_processes

\* peer_ports: the ports of the other processes, in launch order
peer_ports(p) ==
    [i \in 1 .. (num_processes - 1) |-> IF i < p THEN i ELSE i + 1]

\* an expected set that excuses the peers whose call raised
ExpectedExcusingFailed(p) == ((1 .. (Len(peer_ports(p)) + 1)) \ {p}) \ failed[p]

\* the expected set without the "!= self.process_id" filter
ExpectedWithSelf(p) == 1 .. (Len(peer_ports(p)) + 1)

\* {f"Process-{i+1}" for i in range(len(peer_ports) + 1)} minus the own id
expected_replies(p) == (1 .. (Len(peer_ports(p)) + 1)) \ {p}

\* can_enter_critical_section of p, its request_queue being q
CanEnterWith(p, r, q) ==
    IF in_critical_section[p] THEN FALSE
    ELSE IF r \notin DOMAIN our_requests[p] THEN FALSE
    ELSE IF q = <<>> \/ q[1] # our_requests[p][r]
         THEN FALSE
    ELSE IF r \in DOMAIN pending_replies[p]
         THEN expected_replies(p) \subseteq pending_replies[p][r]
    ELSE TRUE

can_enter_critical_section(p, r) == CanEnterWith(p, r, request_queue[p])

\* the own requests _check_and_enter_critical_section finds admissible
Admissible(p, q) == {r \in DOMAIN our_requests[p] : CanEnterWith(p, r, q)}

\* a _check_and_enter_critical_section that enters, as its name says
CheckAndEnterEnters(p, q) ==
    IF Admissible(p, q) # {}
    THEN /\ in_critical_section' = [in_critical_section EXCEPT ![p] = TRUE]
         /\ current_resource' = [current_resource EXCEPT ![p] =
                CHOOSE r \in Admissible(p, q) : TRUE]
    ELSE UNCHANGED <<in_critical_section, current_resource>>

\* _check_and_enter_critical_section of p, its request_queue being q: under
\* mutex_state.lock, a line is printed for every admissible own request and
\* the wait loop of the requester is left to enter
check_and_enter_critical_section(p, q) ==
    IF Admissible(p, q) # {}
    THEN UNCHANGED <<in_critical_section, current_resource>>  \* print(...)
    ELSE UNCHANGED <<in_critical_section, current_resource>>

\* ------------------------------------------------------------------- Init
IdleHandler == [op |-> "none", at |-> "none", timestamp |-> 0,
                resource_id |-> None, reply_timestamp |-> 0,
                granted |-> FALSE]

MutexInit ==
    /\ clock = [p \in Proc |-> 0]
    /\ request_queue = [p \in Proc |-> <<>>]
    /\ pending_replies = [p \in Proc |-> EmptyDict]
    /\ in_critical_section = [p \in Proc |-> FALSE]
    /\ current_resource = [p \in Proc |-> None]
    /\ our_requests = [p \in Proc |-> EmptyDict]
    /\ pc = [p \in Proc |-> "idle"]
    /\ our_request = [p \in Proc |-> NoRequest]
    /\ peer_index = [p \in Proc |-> 0]
    /\ release_timestamp = [p \in Proc |-> 0]
    /\ handler = [p \in Proc |-> [q \in Proc |-> IdleHandler]]
    /\ failed = [p \in Proc |-> {}]
    /\ blocked_by = [p \in Proc |-> {}]

ClockIdle ==
    /\ time = 0
    /\ agrawala_time = 0
    /\ returned = -1
    /\ previous = -1
    /\ old_time = 0
    /\ received_time = -1
    /\ calls = 0

IdleThread == [at |-> "ready", op |-> "none", received_time |-> -1,
               before |-> -1, loaded |-> -1, new_time |-> -1]

ThreadIdle ==
    /\ lock = 0
    /\ thread = [t \in Threads |-> IdleThread]
    /\ returns = <<>>
    /\ initial_time = 0
    /\ clock_history = <<>>

ChainIdle ==
    /\ ptime = [c \in Clocks |-> 0]
    /\ history = [c \in Clocks |-> <<>>]
    /\ inflight = {}
    /\ events = 0

NoCall == [op |-> "none", request |-> NoRequest, before |-> <<>>,
           after_add |-> FALSE]

QueueIdle ==
    /\ queue = <<>>
    /\ qcall = NoCall

NoComparison == [a |-> NoRequest, b |-> NoRequest, c |-> NoRequest,
                 ab |-> FALSE, ba |-> FALSE, aa |-> FALSE, bc |-> FALSE,
                 ac |-> FALSE]

OrderIdle == compared = NoComparison

\* idle, holding: history, what the process was at every read of the call
IdleStatus == [at |-> "none", process |-> 0, current_timestamp |-> 0,
               pending |-> <<>>, in_critical_section |-> FALSE, idle |-> FALSE,
               holding |-> FALSE]

StatusIdle == status = IdleStatus

\* AgrawalaClock.__init__; request_timestamp is <<>> for None, <<t>> for t
NewAgrawala == [time |-> 0, history |-> <<>>, request_timestamp |-> <<>>,
                deferred_replies |-> {}]

NoAgrawalaCall == [op |-> "none", clock |-> 0, other_timestamp |-> 0,
                   other_process_id |-> 0, result |-> FALSE, list |-> <<>>]

AgrawalaIdle ==
    /\ agrawala = [x \in Agrawala |-> NewAgrawala]
    /\ acall = NoAgrawalaCall
    /\ acalls = 0

StandaloneIdle ==
    /\ ClockIdle
    /\ ThreadIdle
    /\ ChainIdle
    /\ QueueIdle
    /\ OrderIdle
    /\ StatusIdle
    /\ AgrawalaIdle

Init ==
    /\ MutexInit
    /\ num_processes = NumProcesses
    /\ todo = MaxRequests
    /\ StandaloneIdle

\* ------------------------------------------------- requester thread (p)
Peer(p) == peer_ports(p)[peer_index[p]]

AfterReply(p) ==
    IF peer_index[p] + 1 > Len(peer_ports(p)) THEN "wait" ELSE "broadcast_request"

\* request_critical_section, line 278: request_timestamp = self.clock.tick(...)
RequestCriticalSection(p, r) ==
    /\ pc[p] = "idle"
    /\ todo > 0
    /\ clock' = [clock EXCEPT ![p] = Tick(@)]
    /\ our_request' = [our_request EXCEPT ![p] = Request(Tick(clock[p]), p, r)]
    /\ pc' = [pc EXCEPT ![p] = "add_our_request"]
    /\ todo' = todo - 1
    /\ blocked_by' = [blocked_by EXCEPT ![p] =
           {q \in Proc \ {p} : in_critical_section[q] /\ current_resource[q] = r}]
    /\ failed' = [failed EXCEPT ![p] = {}]
    /\ UNCHANGED <<request_queue, pending_replies, in_critical_section,
                   current_resource, our_requests, peer_index,
                   release_timestamp, handler, num_processes, standaloneVars>>

\* MutualExclusionState.add_our_request, under mutex_state.lock
add_our_request(p) ==
    /\ pc[p] = "add_our_request"
    /\ our_requests' = [our_requests EXCEPT ![p] =
           DictSet(@, our_request[p].resource_id, our_request[p])]
    /\ request_queue' = [request_queue EXCEPT ![p] = add_request(@, our_request[p])]
    /\ pending_replies' = [pending_replies EXCEPT ![p] =
           DictSet(@, our_request[p].resource_id, {})]
    /\ peer_index' = [peer_index EXCEPT ![p] = 1]
    /\ pc' = [pc EXCEPT ![p] = "broadcast_request"]
    /\ UNCHANGED <<clock, in_critical_section, current_resource, our_request,
                   release_timestamp, handler, todo, blocked_by,
                   num_processes, failed, standaloneVars>>

\* _broadcast_request: stub.RequestEntry(RequestMessage(...)) to the next peer
SendRequest(p) ==
    /\ pc[p] = "broadcast_request"
    /\ handler[Peer(p)][p].op = "none"
    /\ handler' = [handler EXCEPT ![Peer(p)][p] =
           [op |-> "RequestEntry", at |-> "update",
            timestamp |-> our_request[p].timestamp,
            resource_id |-> our_request[p].resource_id,
            reply_timestamp |-> 0, granted |-> FALSE]]
    /\ pc' = [pc EXCEPT ![p] = "await_request_reply"]
    /\ UNCHANGED <<clock, request_queue, pending_replies, in_critical_section,
                   current_resource, our_requests, our_request, peer_index,
                   release_timestamp, todo, blocked_by,
                   num_processes, failed, standaloneVars>>

\* _broadcast_request, line 323: self.clock.update(reply.timestamp, ...)
ReceiveRequestReply(p) ==
    /\ pc[p] = "await_request_reply"
    /\ handler[Peer(p)][p].at = "returned"
    /\ clock' = [clock EXCEPT ![p] = Update(@, handler[Peer(p)][p].reply_timestamp)]
    /\ handler' = [handler EXCEPT ![Peer(p)][p] = IdleHandler]
    /\ pc' = [pc EXCEPT ![p] = "add_reply"]
    /\ UNCHANGED <<request_queue, pending_replies, in_critical_section,
                   current_resource, our_requests, our_request, peer_index,
                   release_timestamp, todo, blocked_by,
                   num_processes, failed, standaloneVars>>

\* an add_reply that is handed the own id instead of the reply's
add_reply_own_id(p) ==
    /\ pc[p] = "add_reply"
    /\ LET r == our_request[p].resource_id
           had == IF r \in DOMAIN pending_replies[p] THEN pending_replies[p][r] ELSE {}
       IN pending_replies' = [pending_replies EXCEPT ![p] =
              DictSet(@, r, had \cup {p})]
    /\ peer_index' = [peer_index EXCEPT ![p] = @ + 1]
    /\ pc' = [pc EXCEPT ![p] = AfterReply(p)]
    /\ UNCHANGED <<clock, request_queue, in_critical_section, current_resource,
                   our_requests, our_request, release_timestamp, handler, todo,
                   blocked_by, num_processes, failed, standaloneVars>>

\* MutualExclusionState.add_reply(request.resource_id, reply.process_id)
add_reply(p) ==
    /\ pc[p] = "add_reply"
    /\ LET r == our_request[p].resource_id
           had == IF r \in DOMAIN pending_replies[p] THEN pending_replies[p][r] ELSE {}
       IN pending_replies' = [pending_replies EXCEPT ![p] =
              DictSet(@, r, had \cup {Peer(p)})]
    /\ peer_index' = [peer_index EXCEPT ![p] = @ + 1]
    /\ pc' = [pc EXCEPT ![p] = AfterReply(p)]
    /\ UNCHANGED <<clock, request_queue, in_critical_section, current_resource,
                   our_requests, our_request, release_timestamp, handler, todo,
                   blocked_by, num_processes, failed, standaloneVars>>

\* _wait_for_critical_section_access: the poll that finds the predicate true
WaitForAccess(p) ==
    /\ pc[p] = "wait"
    /\ can_enter_critical_section(p, our_request[p].resource_id)
    /\ pc' = [pc EXCEPT ![p] = "enter"]
    /\ UNCHANGED <<clock, request_queue, pending_replies, in_critical_section,
                   current_resource, our_requests, our_request, peer_index,
                   release_timestamp, handler, todo, blocked_by,
                   num_processes, failed, standaloneVars>>

\* MutualExclusionState.enter_critical_section
enter_critical_section(p) ==
    /\ pc[p] = "enter"
    /\ in_critical_section' = [in_critical_section EXCEPT ![p] = TRUE]
    /\ current_resource' = [current_resource EXCEPT ![p] = our_request[p].resource_id]
    /\ pc' = [pc EXCEPT ![p] = "working"]
    /\ UNCHANGED <<clock, request_queue, pending_replies, our_requests,
                   our_request, peer_index, release_timestamp, handler, todo,
                   blocked_by, num_processes, failed, standaloneVars>>

\* MutualExclusionState.exit_critical_section, after simulate_critical_section_work
exit_critical_section(p) ==
    /\ pc[p] = "working"
    /\ LET r == current_resource[p]
       IN /\ in_critical_section' = [in_critical_section EXCEPT ![p] = FALSE]
          /\ current_resource' = [current_resource EXCEPT ![p] = None]
          /\ IF r \in DOMAIN our_requests[p]
             THEN /\ request_queue' = [request_queue EXCEPT ![p] =
                         remove_request(@, p, r)]
                  /\ our_requests' = [our_requests EXCEPT ![p] = DictDel(@, r)]
             ELSE UNCHANGED <<request_queue, our_requests>>
          /\ pending_replies' = [pending_replies EXCEPT ![p] = DictDel(@, r)]
    /\ pc' = [pc EXCEPT ![p] = "broadcast_release"]
    /\ UNCHANGED <<clock, our_request, peer_index, release_timestamp, handler,
                   todo, blocked_by, num_processes, failed, standaloneVars>>

\* _broadcast_release, line 356: release_timestamp = self.clock.tick(...)
ReleaseTick(p) ==
    /\ pc[p] = "broadcast_release"
    /\ clock' = [clock EXCEPT ![p] = Tick(@)]
    /\ release_timestamp' = [release_timestamp EXCEPT ![p] = Tick(clock[p])]
    /\ peer_index' = [peer_index EXCEPT ![p] = 1]
    /\ pc' = [pc EXCEPT ![p] = "send_release"]
    /\ failed' = [failed EXCEPT ![p] = {}]
    /\ UNCHANGED <<request_queue, pending_replies, in_critical_section,
                   current_resource, our_requests, our_request, handler, todo,
                   blocked_by, num_processes, standaloneVars>>

\* _broadcast_release: stub.ReleaseEntry(ReleaseMessage(...)) to the next peer
SendRelease(p) ==
    /\ pc[p] = "send_release"
    /\ handler[Peer(p)][p].op = "none"
    /\ handler' = [handler EXCEPT ![Peer(p)][p] =
           [op |-> "ReleaseEntry", at |-> "update",
            timestamp |-> release_timestamp[p],
            resource_id |-> our_request[p].resource_id,
            reply_timestamp |-> 0, granted |-> FALSE]]
    /\ pc' = [pc EXCEPT ![p] = "await_release_reply"]
    /\ UNCHANGED <<clock, request_queue, pending_replies, in_critical_section,
                   current_resource, our_requests, our_request, peer_index,
                   release_timestamp, todo, blocked_by,
                   num_processes, failed, standaloneVars>>

\* _broadcast_release, line 370: self.clock.update(reply.timestamp, ...); after
\* the last peer request_critical_section returns and its locals are gone
ReceiveReleaseReply(p) ==
    /\ pc[p] = "await_release_reply"
    /\ handler[Peer(p)][p].at = "returned"
    /\ clock' = [clock EXCEPT ![p] = Update(@, handler[Peer(p)][p].reply_timestamp)]
    /\ handler' = [handler EXCEPT ![Peer(p)][p] = IdleHandler]
    /\ IF peer_index[p] + 1 > Len(peer_ports(p))
       THEN /\ pc' = [pc EXCEPT ![p] = "idle"]
            /\ our_request' = [our_request EXCEPT ![p] = NoRequest]
            /\ peer_index' = [peer_index EXCEPT ![p] = 0]
            /\ release_timestamp' = [release_timestamp EXCEPT ![p] = 0]
            /\ blocked_by' = [blocked_by EXCEPT ![p] = {}]
       ELSE /\ pc' = [pc EXCEPT ![p] = "send_release"]
            /\ peer_index' = [peer_index EXCEPT ![p] = @ + 1]
            /\ UNCHANGED <<our_request, release_timestamp, blocked_by>>
    /\ UNCHANGED <<request_queue, pending_replies, in_critical_section,
                   current_resource, our_requests, todo,
                   num_processes, failed, standaloneVars>>

\* ------------------------------- handler thread at q serving the call of p
\* a RequestEntry that inserts the record without updating the clock
RequestEntryNoUpdate(q, p) ==
    /\ handler[q][p].op = "RequestEntry"
    /\ handler[q][p].at = "update"
    /\ handler' = [handler EXCEPT ![q][p].at = "add_request"]
    /\ UNCHANGED <<clock, request_queue, pending_replies, in_critical_section,
                   current_resource, our_requests, pc, our_request, peer_index,
                   release_timestamp, todo, blocked_by,
                   num_processes, failed, standaloneVars>>

\* RequestEntry, line 183: self.clock.update(request.timestamp, ...)
RequestEntryUpdate(q, p) ==
    /\ handler[q][p].op = "RequestEntry"
    /\ handler[q][p].at = "update"
    /\ clock' = [clock EXCEPT ![q] = Update(@, handler[q][p].timestamp)]
    /\ handler' = [handler EXCEPT ![q][p].at = "add_request"]
    /\ UNCHANGED <<request_queue, pending_replies, in_critical_section,
                   current_resource, our_requests, pc, our_request, peer_index,
                   release_timestamp, todo, blocked_by,
                   num_processes, failed, standaloneVars>>

\* RequestEntry, lines 187-192: self.mutex_state.add_request(incoming_request)
RequestEntryAdd(q, p) ==
    /\ handler[q][p].op = "RequestEntry"
    /\ handler[q][p].at = "add_request"
    /\ request_queue' = [request_queue EXCEPT ![q] =
           add_request(@, Request(handler[q][p].timestamp, p, handler[q][p].resource_id))]
    /\ handler' = [handler EXCEPT ![q][p].at = "reply"]
    /\ UNCHANGED <<clock, pending_replies, in_critical_section, current_resource,
                   our_requests, pc, our_request, peer_index, release_timestamp,
                   todo, blocked_by, num_processes, failed, standaloneVars>>

\* a RequestEntry that withholds its reply while the receiver is in the
\* critical section for the requested resource
RequestEntryReplyDeferred(q, p) ==
    /\ handler[q][p].op = "RequestEntry"
    /\ handler[q][p].at = "reply"
    /\ ~(in_critical_section[q] /\ current_resource[q] = handler[q][p].resource_id)
    /\ clock' = [clock EXCEPT ![q] = Tick(@)]
    /\ handler' = [handler EXCEPT ![q][p].at = "returned",
                                  ![q][p].reply_timestamp = Tick(clock[q]),
                                  ![q][p].granted = TRUE]
    /\ UNCHANGED <<request_queue, pending_replies, in_critical_section,
                   current_resource, our_requests, pc, our_request, peer_index,
                   release_timestamp, todo, blocked_by, num_processes, failed,
                   standaloneVars>>

\* RequestEntry, lines 198-208: reply_timestamp = self.clock.tick(...); return
RequestEntryReply(q, p) ==
    /\ handler[q][p].op = "RequestEntry"
    /\ handler[q][p].at = "reply"
    /\ clock' = [clock EXCEPT ![q] = Tick(@)]
    /\ handler' = [handler EXCEPT ![q][p].at = "returned",
                                  ![q][p].reply_timestamp = Tick(clock[q]),
                                  ![q][p].granted = TRUE]
    /\ UNCHANGED <<request_queue, pending_replies, in_critical_section,
                   current_resource, our_requests, pc, our_request, peer_index,
                   release_timestamp, todo, blocked_by,
                   num_processes, failed, standaloneVars>>

\* ReleaseEntry, line 236: self.clock.update(request.timestamp, ...)
ReleaseEntryUpdate(q, p) ==
    /\ handler[q][p].op = "ReleaseEntry"
    /\ handler[q][p].at = "update"
    /\ clock' = [clock EXCEPT ![q] = Update(@, handler[q][p].timestamp)]
    /\ handler' = [handler EXCEPT ![q][p].at = "remove_request"]
    /\ UNCHANGED <<request_queue, pending_replies, in_critical_section,
                   current_resource, our_requests, pc, our_request, peer_index,
                   release_timestamp, todo, blocked_by,
                   num_processes, failed, standaloneVars>>

\* ReleaseEntry, lines 240-243: self.mutex_state.remove_request(...), then
\* self._check_and_enter_critical_section() on the queue that is left
ReleaseEntryRemove(q, p) ==
    /\ handler[q][p].op = "ReleaseEntry"
    /\ handler[q][p].at = "remove_request"
    /\ request_queue' = [request_queue EXCEPT ![q] =
           remove_request(@, p, handler[q][p].resource_id)]
    /\ check_and_enter_critical_section(q, request_queue'[q])
    /\ handler' = [handler EXCEPT ![q][p].at = "reply"]
    /\ blocked_by' = [blocked_by EXCEPT ![q] =
           IF our_request[q].resource_id = handler[q][p].resource_id
           THEN @ \ {p} ELSE @]
    /\ UNCHANGED <<clock, pending_replies, our_requests, pc, our_request,
                   peer_index, release_timestamp, todo, num_processes, failed,
                   standaloneVars>>

\* ReleaseEntry, lines 248-257: reply_timestamp = self.clock.tick(...); return
ReleaseEntryReply(q, p) ==
    /\ handler[q][p].op = "ReleaseEntry"
    /\ handler[q][p].at = "reply"
    /\ clock' = [clock EXCEPT ![q] = Tick(@)]
    /\ handler' = [handler EXCEPT ![q][p].at = "returned",
                                  ![q][p].reply_timestamp = Tick(clock[q]),
                                  ![q][p].granted = TRUE]
    /\ UNCHANGED <<request_queue, pending_replies, in_critical_section,
                   current_resource, our_requests, pc, our_request, peer_index,
                   release_timestamp, todo, blocked_by,
                   num_processes, failed, standaloneVars>>

Requester(p) ==
    \/ add_our_request(p)
    \/ SendRequest(p)
    \/ ReceiveRequestReply(p)
    \/ add_reply(p)
    \/ WaitForAccess(p)
    \/ enter_critical_section(p)
    \/ exit_critical_section(p)
    \/ ReleaseTick(p)
    \/ SendRelease(p)
    \/ ReceiveReleaseReply(p)

Handler(q, p) ==
    \/ RequestEntryUpdate(q, p)
    \/ RequestEntryAdd(q, p)
    \/ RequestEntryReply(q, p)
    \/ ReleaseEntryUpdate(q, p)
    \/ ReleaseEntryRemove(q, p)
    \/ ReleaseEntryReply(q, p)

Next ==
    \/ \E p \in Running, r \in Resources : RequestCriticalSection(p, r)
    \/ \E p \in Running : Requester(p)
    \/ \E q \in Running, p \in Running : Handler(q, p)

Spec == Init /\ [][Next]_vars

\* ------------------------------------------------------ calls that raise
\* A peer that cannot be reached: the stub call raises before any handler of
\* the peer runs, and the except branch of the loop prints and goes on.

\* a broadcast that gives up at the first call that raises
RequestEntryFailsAborts(p) ==
    /\ pc[p] = "broadcast_request"
    /\ failed' = [failed EXCEPT ![p] = @ \cup {Peer(p)}]
    /\ peer_index' = [peer_index EXCEPT ![p] = Len(peer_ports(p)) + 1]
    /\ pc' = [pc EXCEPT ![p] = "wait"]
    /\ UNCHANGED <<clock, request_queue, pending_replies, in_critical_section,
                   current_resource, our_requests, our_request,
                   release_timestamp, handler, todo, blocked_by,
                   num_processes, standaloneVars>>

\* _broadcast_request, lines 331-332
RequestEntryFails(p) ==
    /\ pc[p] = "broadcast_request"
    /\ failed' = [failed EXCEPT ![p] = @ \cup {Peer(p)}]
    /\ peer_index' = [peer_index EXCEPT ![p] = @ + 1]
    /\ pc' = [pc EXCEPT ![p] = AfterReply(p)]
    /\ UNCHANGED <<clock, request_queue, pending_replies, in_critical_section,
                   current_resource, our_requests, our_request,
                   release_timestamp, handler, todo, blocked_by,
                   num_processes, standaloneVars>>

\* a call that raises after the peer has served it
ReleaseEntryFailsDrops(p) ==
    /\ pc[p] = "send_release"
    /\ failed' = [failed EXCEPT ![p] = @ \cup {Peer(p)}]
    /\ request_queue' = [request_queue EXCEPT ![Peer(p)] =
           remove_request(@, p, our_request[p].resource_id)]
    /\ IF peer_index[p] + 1 > Len(peer_ports(p))
       THEN /\ pc' = [pc EXCEPT ![p] = "idle"]
            /\ our_request' = [our_request EXCEPT ![p] = NoRequest]
            /\ peer_index' = [peer_index EXCEPT ![p] = 0]
            /\ release_timestamp' = [release_timestamp EXCEPT ![p] = 0]
            /\ blocked_by' = [blocked_by EXCEPT ![p] = {}]
       ELSE /\ pc' = [pc EXCEPT ![p] = "send_release"]
            /\ peer_index' = [peer_index EXCEPT ![p] = @ + 1]
            /\ UNCHANGED <<our_request, release_timestamp, blocked_by>>
    /\ UNCHANGED <<clock, pending_replies, in_critical_section,
                   current_resource, our_requests, handler, todo,
                   num_processes, standaloneVars>>

\* _broadcast_release, lines 375-376; after the last peer
\* request_critical_section returns
ReleaseEntryFails(p) ==
    /\ pc[p] = "send_release"
    /\ failed' = [failed EXCEPT ![p] = @ \cup {Peer(p)}]
    /\ IF peer_index[p] + 1 > Len(peer_ports(p))
       THEN /\ pc' = [pc EXCEPT ![p] = "idle"]
            /\ our_request' = [our_request EXCEPT ![p] = NoRequest]
            /\ peer_index' = [peer_index EXCEPT ![p] = 0]
            /\ release_timestamp' = [release_timestamp EXCEPT ![p] = 0]
            /\ blocked_by' = [blocked_by EXCEPT ![p] = {}]
       ELSE /\ pc' = [pc EXCEPT ![p] = "send_release"]
            /\ peer_index' = [peer_index EXCEPT ![p] = @ + 1]
            /\ UNCHANGED <<our_request, release_timestamp, blocked_by>>
    /\ UNCHANGED <<clock, request_queue, pending_replies, in_critical_section,
                   current_resource, our_requests, handler, todo,
                   num_processes, standaloneVars>>

CallRaises(p) ==
    \/ RequestEntryFails(p)
    \/ ReleaseEntryFails(p)

\* three processes, as the launcher starts by default, with calls that raise
LossyInit ==
    /\ MutexInit
    /\ num_processes = DefaultProcesses
    /\ todo = MaxLossyRequests
    /\ StandaloneIdle

LossyNext ==
    \/ Next
    \/ \E p \in Running : CallRaises(p)

LossySpec == LossyInit /\ [][LossyNext]_vars

\* ------------------------------------------- a release that is not delivered
\* Two processes and one resource, as in a run of the client with a single
\* entry in its list; the ReleaseEntry calls of _broadcast_release may raise.

StaleResources == {"ResourceA"}

StaleInit ==
    /\ MutexInit
    /\ num_processes = NumProcesses
    /\ todo = MaxStaleRequests
    /\ StandaloneIdle

StaleNext ==
    \/ \E p \in Running, r \in StaleResources : RequestCriticalSection(p, r)
    \/ \E p \in Running : Requester(p)
    \/ \E q \in Running, p \in Running : Handler(q, p)
    \/ \E p \in Running : ReleaseEntryFails(p)

StaleSpec == StaleInit /\ [][StaleNext]_vars


\* --------------------------------------------------------- GetStatus
\* A gRPC client (client.py, line 79, or any other) calls GetStatus of
\* process p while the protocol runs, one query after the other; the
\* budget of calls is shared with request_critical_section.  The
\* handler ticks the clock, copies the queue under mutex_state.lock, and
\* reads in_critical_section when it builds the response, after the lock
\* is released.

\* f"{r.process_id}:{r.resource_id}:T{r.timestamp}"
Descriptor(x) == <<x.process_id, x.resource_id, x.timestamp>>

\* [... for r in self.mutex_state.request_queue]
PendingRequests(q) == [i \in 1 .. Len(q) |-> Descriptor(q[i])]

\* not in the critical section and no own request outstanding
IsIdle(p) ==
    /\ pc[p] = "idle"
    /\ ~in_critical_section[p]
    /\ DOMAIN our_requests[p] = {}

\* GetStatus, line 260: current_time = self.clock.tick(...)
GetStatusTick(p) ==
    /\ status.at = "none"
    /\ todo > 0
    /\ todo' = todo - 1
    /\ clock' = [clock EXCEPT ![p] = Tick(@)]
    /\ status' = [at |-> "pending", process |-> p,
                  current_timestamp |-> Tick(clock[p]), pending |-> <<>>,
                  in_critical_section |-> FALSE, idle |-> IsIdle(p),
                  holding |-> in_critical_section[p]]
    /\ UNCHANGED <<request_queue, pending_replies, in_critical_section,
                   current_resource, our_requests, pc, our_request, peer_index,
                   release_timestamp, handler, num_processes, failed,
                   blocked_by, clockVars, threadVars, chainVars, queueVars,
                   orderVars, agrawalaVars>>

\* a snapshot that takes the records out of the queue
GetStatusPendingDrains(p) ==
    /\ status.at = "pending"
    /\ status.process = p
    /\ status' = [status EXCEPT !.at = "respond",
                                !.pending = PendingRequests(request_queue[p]),
                                !.idle = @ /\ IsIdle(p),
                                !.holding = @ /\ in_critical_section[p]]
    /\ request_queue' = [request_queue EXCEPT ![p] = <<>>]
    /\ UNCHANGED <<clock, pending_replies, in_critical_section,
                   current_resource, our_requests, pc, our_request, peer_index,
                   release_timestamp, handler, num_processes, todo, failed,
                   blocked_by, clockVars, threadVars, chainVars, queueVars,
                   orderVars, agrawalaVars>>

\* GetStatus, lines 262-264: pending = [...], under mutex_state.lock
GetStatusPending(p) ==
    /\ status.at = "pending"
    /\ status.process = p
    /\ status' = [status EXCEPT !.at = "respond",
                                !.pending = PendingRequests(request_queue[p]),
                                !.idle = @ /\ IsIdle(p),
                                !.holding = @ /\ in_critical_section[p]]
    /\ UNCHANGED <<mutexVars, clockVars, threadVars, chainVars,
                   queueVars, orderVars, agrawalaVars>>

\* a response built from a flag that is never set
GetStatusResponseStale(p) ==
    /\ status.at = "respond"
    /\ status.process = p
    /\ status' = [status EXCEPT !.at = "returned",
                                !.in_critical_section = FALSE,
                                !.idle = @ /\ IsIdle(p),
                                !.holding = @ /\ in_critical_section[p]]
    /\ UNCHANGED <<mutexVars, clockVars, threadVars, chainVars,
                   queueVars, orderVars, agrawalaVars>>

\* GetStatus, lines 266-271: return StatusResponse(
\*     in_critical_section=self.mutex_state.in_critical_section, ...)
GetStatusResponse(p) ==
    /\ status.at = "respond"
    /\ status.process = p
    /\ status' = [status EXCEPT !.at = "returned",
                                !.in_critical_section = in_critical_section[p],
                                !.idle = @ /\ IsIdle(p),
                                !.holding = @ /\ in_critical_section[p]]
    /\ UNCHANGED <<mutexVars, clockVars, threadVars, chainVars,
                   queueVars, orderVars, agrawalaVars>>

\* the caller has the response; the handler thread is free again
GetStatusDone(p) ==
    /\ status.at = "returned"
    /\ status.process = p
    /\ status' = IdleStatus
    /\ UNCHANGED <<mutexVars, clockVars, threadVars, chainVars,
                   queueVars, orderVars, agrawalaVars>>

GetStatus(p) ==
    \/ GetStatusTick(p)
    \/ GetStatusPending(p)
    \/ GetStatusResponse(p)
    \/ GetStatusDone(p)

StatusInit ==
    /\ MutexInit
    /\ num_processes = NumProcesses
    /\ todo = MaxStatusCalls
    /\ ClockIdle
    /\ ThreadIdle
    /\ ChainIdle
    /\ QueueIdle
    /\ OrderIdle
    /\ StatusIdle
    /\ AgrawalaIdle

\* the clients request the resource the demo asks for first
StatusResources == {"ResourceA"}

StatusNext ==
    \/ \E p \in Running, r \in StatusResources : RequestCriticalSection(p, r)
    \/ \E p \in Running : Requester(p)
    \/ \E q \in Running, p \in Running : Handler(q, p)
    \/ \E p \in Running : GetStatus(p)

StatusSpec == StatusInit /\ [][StatusNext]_vars

\* ------------------------------------------------- the stand-alone clock
\* test_logical_clock.py: one clock object, called by one thread; the same
\* calls go to a LogicalClock(initial_time) and an AgrawalaClock(.., initial_time)
ClockInit ==
    /\ MutexInit
    /\ num_processes = NumProcesses
    /\ todo = 0
    /\ time \in 0 .. MaxInitialTime
    /\ agrawala_time = time
    /\ returned = -1
    /\ previous = -1
    /\ old_time = time
    /\ received_time = -1
    /\ calls = 0
    /\ ThreadIdle
    /\ ChainIdle
    /\ QueueIdle
    /\ OrderIdle
    /\ StatusIdle
    /\ AgrawalaIdle

\* clock.tick()
ClockTick ==
    /\ calls < MaxCalls
    /\ time' = Tick(time)
    /\ agrawala_time' = AgrawalaTick(agrawala_time)
    /\ returned' = time'
    /\ previous' = returned
    /\ old_time' = time
    /\ received_time' = -1
    /\ calls' = calls + 1
    /\ UNCHANGED <<mutexVars, statusVars, agrawalaVars,
                   chainVars, queueVars, orderVars,
                   threadVars>>

\* clock.update(r)
ClockUpdate(r) ==
    /\ calls < MaxCalls
    /\ time' = Update(time, r)
    /\ agrawala_time' = AgrawalaUpdate(agrawala_time, r)
    /\ returned' = time'
    /\ previous' = returned
    /\ old_time' = time
    /\ received_time' = r
    /\ calls' = calls + 1
    /\ UNCHANGED <<mutexVars, statusVars, agrawalaVars,
                   chainVars, queueVars, orderVars,
                   threadVars>>

ClockNext ==
    \/ ClockTick
    \/ \E r \in 0 .. MaxReceived : ClockUpdate(r)

ClockSpec == ClockInit /\ [][ClockNext]_vars

\* ------------------------------------- one clock called by several threads
\* test_thread_safety: worker threads call tick() and update(r) on one
\* LogicalClock, MaxThreadCalls times all together.  A call takes the lock, reads self.time, writes it, reads
\* it again for the return value and leaves the with block.

\* threading.Lock without mutual exclusion
AcquireAlways(l) == TRUE

\* "with self.lock:" can be entered when no thread holds the lock
CanAcquire(l) == l = 0

ThreadInit ==
    /\ MutexInit
    /\ num_processes = NumProcesses
    /\ todo = 0
    /\ time \in 0 .. MaxInitialTime
    /\ agrawala_time = 0
    /\ returned = -1
    /\ previous = -1
    /\ old_time = 0
    /\ received_time = -1
    /\ calls = 0
    /\ lock = 0
    /\ thread = [t \in Threads |-> IdleThread]
    /\ returns = <<>>
    /\ initial_time = time
    /\ clock_history = <<>>
    /\ ChainIdle
    /\ QueueIdle
    /\ OrderIdle
    /\ StatusIdle
    /\ AgrawalaIdle

\* the worker calls clock.tick() (r = -1) or clock.update(r)
ThreadCall(t, op, r) ==
    /\ thread[t].at = "ready"
    /\ calls < MaxThreadCalls
    /\ calls' = calls + 1
    /\ thread' = [thread EXCEPT ![t].at = "acquire", ![t].op = op,
                                ![t].received_time = r, ![t].before = time]
    /\ UNCHANGED <<mutexVars, statusVars, agrawalaVars,
                   chainVars, queueVars, orderVars,
                   time, agrawala_time, returned, previous,
                   old_time, received_time, lock, returns, initial_time, clock_history>>

\* with self.lock:
ThreadAcquire(t) ==
    /\ thread[t].at = "acquire"
    /\ CanAcquire(lock)
    /\ lock' = t
    /\ thread' = [thread EXCEPT ![t].at = "load"]
    /\ UNCHANGED <<mutexVars, statusVars, agrawalaVars,
                   chainVars, queueVars, orderVars,
                   clockVars, returns, initial_time, clock_history>>

\* the read of self.time in "self.time += 1" / "max(self.time, received_time)"
ThreadLoad(t) ==
    /\ thread[t].at = "load"
    /\ thread' = [thread EXCEPT ![t].at = "store", ![t].loaded = time]
    /\ UNCHANGED <<mutexVars, statusVars, agrawalaVars,
                   chainVars, queueVars, orderVars,
                   clockVars, lock, returns, initial_time, clock_history>>

\* the write of self.time
ThreadStore(t) ==
    /\ thread[t].at = "store"
    /\ time' = IF thread[t].op = "tick"
               THEN Tick(thread[t].loaded)
               ELSE Update(thread[t].loaded, thread[t].received_time)
    /\ thread' = [thread EXCEPT ![t].at = "return"]
    /\ UNCHANGED <<mutexVars, statusVars, agrawalaVars,
                   chainVars, queueVars, orderVars,
                   agrawala_time, returned, previous, old_time,
                   received_time, calls, lock, returns, initial_time, clock_history>>

\* return self.time, leaving the with block
ThreadReturn(t) ==
    /\ thread[t].at = "return"
    /\ returns' = Append(returns, [thread |-> t, value |-> time,
                                   before |-> thread[t].before])
    /\ lock' = 0
    /\ thread' = [thread EXCEPT ![t] = IdleThread]
    /\ UNCHANGED <<mutexVars, statusVars, agrawalaVars,
                   chainVars, queueVars, orderVars,
                   clockVars, initial_time, clock_history>>

ThreadNext ==
    \/ \E t \in Threads : ThreadCall(t, "tick", -1)
    \/ \E t \in Threads, r \in 0 .. MaxThreadReceived :
           ThreadCall(t, "update", r)
    \/ \E t \in Threads : ThreadAcquire(t)
    \/ \E t \in Threads : ThreadLoad(t)
    \/ \E t \in Threads : ThreadStore(t)
    \/ \E t \in Threads : ThreadReturn(t)

ThreadSpec == ThreadInit /\ [][ThreadNext]_vars

\* ------------------------ one clock with history called by several threads
\* The servicer's clock is a LogicalClockWithHistory; the gRPC handler
\* threads and the requester thread of the process call tick and update on
\* it, MaxThreadCalls times all together.  A call runs the base class's
\* method, which takes the lock, moves the clock and releases the lock, and
\* then takes the lock a second time to append to the history.

HistoryInit ==
    /\ MutexInit
    /\ num_processes = NumProcesses
    /\ todo = 0
    /\ ClockIdle
    /\ ThreadIdle
    /\ ChainIdle
    /\ QueueIdle
    /\ OrderIdle
    /\ StatusIdle
    /\ AgrawalaIdle

\* tick(event_desc) (r = -1) or update(r, sender_id) is called; update reads
\* old_time = self.time before it takes the lock
HistoryCall(t, op, r) ==
    /\ thread[t].at = "ready"
    /\ calls < MaxThreadCalls
    /\ calls' = calls + 1
    /\ thread' = [thread EXCEPT ![t].at = "super_acquire", ![t].op = op,
                                ![t].received_time = r, ![t].before = time]
    /\ UNCHANGED <<mutexVars, statusVars, agrawalaVars,
                   chainVars, queueVars, orderVars,
                   time, agrawala_time, returned, previous,
                   old_time, received_time, lock, returns, initial_time,
                   clock_history>>

\* super().tick() / super().update(received_time): with self.lock:
HistorySuperAcquire(t) ==
    /\ thread[t].at = "super_acquire"
    /\ CanAcquire(lock)
    /\ lock' = t
    /\ thread' = [thread EXCEPT ![t].at = "super"]
    /\ UNCHANGED <<mutexVars, statusVars, agrawalaVars,
                   chainVars, queueVars, orderVars,
                   clockVars, returns, initial_time, clock_history>>

\* the body of LogicalClock.tick / update under the lock; new_time is what
\* it returns when it leaves the with block
HistorySuper(t) ==
    /\ thread[t].at = "super"
    /\ lock = t
    /\ LET n == IF thread[t].op = "tick"
                THEN Tick(time)
                ELSE Update(time, thread[t].received_time)
       IN /\ time' = n
          /\ thread' = [thread EXCEPT ![t].at = "append_acquire",
                                      ![t].new_time = n]
    /\ lock' = 0
    /\ UNCHANGED <<mutexVars, statusVars, agrawalaVars,
                   chainVars, queueVars, orderVars,
                   agrawala_time, returned, previous, old_time,
                   received_time, calls, returns, initial_time,
                   clock_history>>

\* lines 37 and 50: with self.lock:
HistoryAppendAcquire(t) ==
    /\ thread[t].at = "append_acquire"
    /\ CanAcquire(lock)
    /\ lock' = t
    /\ thread' = [thread EXCEPT ![t].at = "append"]
    /\ UNCHANGED <<mutexVars, statusVars, agrawalaVars,
                   chainVars, queueVars, orderVars,
                   clockVars, returns, initial_time, clock_history>>

\* lines 38-39 and 51-52: self.history.append((new_time, desc)); return
\* new_time
HistoryAppend(t) ==
    /\ thread[t].at = "append"
    /\ lock = t
    /\ clock_history' = Append(clock_history,
           [time |-> thread[t].new_time,
            kind |-> IF thread[t].op = "tick" THEN "LOCAL" ELSE "RECEIVED",
            msg_ts |-> thread[t].received_time,
            old_local |-> IF thread[t].op = "tick" THEN -1
                          ELSE thread[t].before])
    /\ returns' = Append(returns, [thread |-> t, value |-> thread[t].new_time,
                                   before |-> thread[t].before])
    /\ lock' = 0
    /\ thread' = [thread EXCEPT ![t] = IdleThread]
    /\ UNCHANGED <<mutexVars, statusVars, agrawalaVars,
                   chainVars, queueVars, orderVars,
                   clockVars, initial_time>>

HistoryNext ==
    \/ \E t \in Threads : HistoryCall(t, "tick", -1)
    \/ \E t \in Threads, r \in 0 .. MaxThreadReceived :
           HistoryCall(t, "update", r)
    \/ \E t \in Threads : HistorySuperAcquire(t)
    \/ \E t \in Threads : HistorySuper(t)
    \/ \E t \in Threads : HistoryAppendAcquire(t)
    \/ \E t \in Threads : HistoryAppend(t)

HistorySpec == HistoryInit /\ [][HistoryNext]_vars

\* -------------------------------------------- clocks of several processes
\* test_concurrent_processes: pA, pB, pC are LogicalClockWithHistory objects
\* of three processes, each called by one thread.  A timestamp obtained by
\* tick is handed to the update of another clock, at once or later.

HistoryTick(h, t) == Append(h, [time |-> t, kind |-> "LOCAL", msg_ts |-> -1,
                                sender |-> "none"])

HistoryUpdate(h, t, r, x) == Append(h, [time |-> t, kind |-> "RECEIVED",
                                        msg_ts |-> r, sender |-> x])

ChainInit ==
    /\ MutexInit
    /\ num_processes = NumProcesses
    /\ todo = 0
    /\ ClockIdle
    /\ ThreadIdle
    /\ ChainIdle
    /\ QueueIdle
    /\ OrderIdle
    /\ StatusIdle
    /\ AgrawalaIdle

\* pX.tick("Local X")
LocalEvent(x) ==
    /\ events < MaxEvents
    /\ events' = events + 1
    /\ ptime' = [ptime EXCEPT ![x] = Tick(@)]
    /\ history' = [history EXCEPT ![x] = HistoryTick(@, Tick(ptime[x]))]
    /\ UNCHANGED <<mutexVars, statusVars, agrawalaVars,
                   clockVars, threadVars, queueVars, orderVars,
                   inflight>>

\* ts = pX.tick("Send X->Y") for one receiver, ("Broadcast X->all") for all
SendEvent(x, to) ==
    /\ events < MaxEvents
    /\ events' = events + 1
    /\ ptime' = [ptime EXCEPT ![x] = Tick(@)]
    /\ history' = [history EXCEPT ![x] = HistoryTick(@, Tick(ptime[x]))]
    /\ inflight' = inflight \cup
           {[ts |-> Tick(ptime[x]), sender |-> x, receiver |-> y] : y \in to}
    /\ UNCHANGED <<mutexVars, statusVars, agrawalaVars,
                   clockVars, threadVars, queueVars, orderVars>>

\* pY.update(ts, "X")
ReceiveEvent(msg) ==
    /\ msg \in inflight
    /\ inflight' = inflight \ {msg}
    /\ ptime' = [ptime EXCEPT ![msg.receiver] = Update(@, msg.ts)]
    /\ history' = [history EXCEPT ![msg.receiver] =
           HistoryUpdate(@, Update(ptime[msg.receiver], msg.ts), msg.ts,
                         msg.sender)]
    /\ UNCHANGED <<mutexVars, statusVars, agrawalaVars,
                   clockVars, threadVars, queueVars, orderVars,
                   events>>

ChainNext ==
    \/ \E x \in Clocks : LocalEvent(x)
    \/ \E x \in Clocks : \E y \in Clocks \ {x} : SendEvent(x, {y})
    \/ \E x \in Clocks : SendEvent(x, Clocks \ {x})
    \/ \E msg \in inflight : ReceiveEvent(msg)

ChainSpec == ChainInit /\ [][ChainNext]_vars

\* ------------------------------------------------ Request records compared
\* Request(timestamp, process_id, resource_id) objects built directly and
\* compared with <, as list.sort() does

Records ==
    {Request(ts, p, r) : ts \in 1 .. MaxQueueTime, p \in Proc, r \in Resources}

OrderInit ==
    /\ MutexInit
    /\ num_processes = NumProcesses
    /\ todo = 0
    /\ ClockIdle
    /\ ThreadIdle
    /\ ChainIdle
    /\ QueueIdle
    /\ OrderIdle
    /\ StatusIdle
    /\ AgrawalaIdle

\* a < b, b < a, a < a, b < c, a < c, once for the three records of a run
Compare(a, b, c) ==
    /\ compared = NoComparison
    /\ compared' = [a |-> a, b |-> b, c |-> c,
                    ab |-> ReqLT(a, b), ba |-> ReqLT(b, a), aa |-> ReqLT(a, a),
                    bc |-> ReqLT(b, c), ac |-> ReqLT(a, c)]
    /\ UNCHANGED <<mutexVars, statusVars, agrawalaVars,
                   clockVars, threadVars, chainVars, queueVars>>

OrderNext == \E a \in Records, b \in Records, c \in Records : Compare(a, b, c)

OrderSpec == OrderInit /\ [][OrderNext]_vars

\* ------------------------------------------- the queue called directly
\* a MutualExclusionState whose add_request and remove_request are called
\* with any record and any (process_id, resource_id), in any order

QueueInit ==
    /\ MutexInit
    /\ num_processes = NumProcesses
    /\ todo = 0
    /\ ClockIdle
    /\ ThreadIdle
    /\ ChainIdle
    /\ QueueIdle
    /\ OrderIdle
    /\ StatusIdle
    /\ AgrawalaIdle

\* state.add_request(x)
QueueAdd(x) ==
    /\ queue' = add_request(queue, x)
    /\ qcall' = [op |-> "add_request", request |-> x, before |-> queue,
                 after_add |-> FALSE]
    /\ UNCHANGED <<mutexVars, statusVars, agrawalaVars,
                   clockVars, threadVars, chainVars, orderVars>>

\* state.remove_request(p, r); after_add: the call before it was add_request
\* of a record of (p, r), and before is the queue before that add_request
QueueRemove(p, r) ==
    /\ queue' = remove_request(queue, p, r)
    /\ LET follows == qcall.op = "add_request" /\ SameKey(qcall.request, p, r)
       IN qcall' = [op |-> "remove_request", request |-> Request(0, p, r),
                    before |-> IF follows THEN qcall.before ELSE <<>>,
                    after_add |-> follows]
    /\ UNCHANGED <<mutexVars, statusVars, agrawalaVars,
                   clockVars, threadVars, chainVars, orderVars>>

QueueNext ==
    \/ \E x \in Records : QueueAdd(x)
    \/ \E p \in Proc, r \in Resources : QueueRemove(p, r)

QueueSpec == QueueInit /\ [][QueueNext]_vars

\* ------------------------------------------------------ AgrawalaClock
\* test_agrawala_logic: AgrawalaClock objects of the processes "A" and "B"
\* (1 and 2: Python compares the ids as strings, "A" < "B"), called by one
\* thread, in any order.  A message carries the sender's request timestamp.

\* tuple comparison that ignores the second component
FirstLess(a1, a2, b1, b2) == a1 < b1

\* (a1, a2) < (b1, b2) on Python tuples
TupleLess(a1, a2, b1, b2) == IF a1 # b1 THEN a1 < b1 ELSE a2 < b2

\* a should_defer_reply that compares the timestamps only, ties included
should_defer_on_tie(c, x, other_timestamp, other_process_id) ==
    IF c.request_timestamp = <<>> THEN FALSE
    ELSE c.request_timestamp[1] <= other_timestamp

\* should_defer_reply of the clock c of process x
should_defer_reply(c, x, other_timestamp, other_process_id) ==
    IF c.request_timestamp = <<>> THEN FALSE
    ELSE TupleLess(c.request_timestamp[1], x, other_timestamp, other_process_id)

\* list(self.deferred_replies): the elements in an order Python chooses
Lists(S) ==
    {l \in [1 .. Cardinality(S) -> S] : \A e \in S : \E i \in DOMAIN l : l[i] = e}

AgrawalaInit ==
    /\ MutexInit
    /\ num_processes = NumProcesses
    /\ todo = 0
    /\ ClockIdle
    /\ ThreadIdle
    /\ ChainIdle
    /\ QueueIdle
    /\ OrderIdle
    /\ StatusIdle
    /\ AgrawalaIdle

\* a call of op on the clock of x that leaves the clock as c
AgrawalaCall(x, op, c) ==
    /\ acalls < MaxAgrawalaCalls
    /\ acalls' = acalls + 1
    /\ agrawala' = [agrawala EXCEPT ![x] = c]
    /\ acall' = [NoAgrawalaCall EXCEPT !.op = op, !.clock = x]
    /\ UNCHANGED <<mutexVars, statusVars, clockVars, threadVars, chainVars,
                   queueVars, orderVars>>

\* a call of op on the clock of x that only returns something
AgrawalaQuery(x, op, ts, pid, result, list) ==
    /\ acall' = [op |-> op, clock |-> x, other_timestamp |-> ts,
                 other_process_id |-> pid, result |-> result, list |-> list]
    /\ UNCHANGED <<mutexVars, statusVars, clockVars, threadVars, chainVars,
                   queueVars, orderVars, agrawala, acalls>>

\* AgrawalaClock.tick
AgrawalaLocalEvent(x) ==
    LET t == AgrawalaTick(agrawala[x].time)
    IN AgrawalaCall(x, "tick",
           [agrawala[x] EXCEPT !.time = t,
                               !.history = Append(@, <<t, "local event">>)])

\* sync_with_received_message(ts, y) with the request timestamp of y
AgrawalaSync(x, y) ==
    /\ agrawala[y].request_timestamp # <<>>
    /\ LET t == AgrawalaUpdate(agrawala[x].time, agrawala[y].request_timestamp[1])
       IN AgrawalaCall(x, "sync_with_received_message",
              [agrawala[x] EXCEPT !.time = t,
                                  !.history = Append(@, <<t, "update">>)])

\* AgrawalaClock.request_critical_section
AgrawalaRequest(x) ==
    LET t == AgrawalaTick(agrawala[x].time)
    IN AgrawalaCall(x, "request_critical_section",
           [agrawala[x] EXCEPT !.time = t,
                               !.history = Append(@, <<t, "request">>),
                               !.request_timestamp = <<t>>])

\* a release that forgets the deferred replies
AgrawalaReleaseKeepsDeferred(x) ==
    AgrawalaCall(x, "release_critical_section",
        [agrawala[x] EXCEPT !.history = Append(@, <<agrawala[x].time, "release">>),
                            !.request_timestamp = <<>>])

\* AgrawalaClock.release_critical_section
AgrawalaRelease(x) ==
    AgrawalaCall(x, "release_critical_section",
        [agrawala[x] EXCEPT !.history = Append(@, <<agrawala[x].time, "release">>),
                            !.request_timestamp = <<>>,
                            !.deferred_replies = {}])

\* AgrawalaClock.defer_reply_to
AgrawalaDeferReplyTo(x, pid) ==
    AgrawalaCall(x, "defer_reply_to",
        [agrawala[x] EXCEPT !.deferred_replies = @ \cup {pid}])

\* AgrawalaClock.should_defer_reply(ts, pid)
AgrawalaShouldDefer(x, ts, pid) ==
    AgrawalaQuery(x, "should_defer_reply", ts, pid,
                  should_defer_reply(agrawala[x], x, ts, pid), <<>>)

\* AgrawalaClock.get_deferred_replies
AgrawalaGetDeferred(x) ==
    \E l \in Lists(agrawala[x].deferred_replies) :
        AgrawalaQuery(x, "get_deferred_replies", 0, 0, FALSE, l)

AgrawalaNext ==
    \/ \E x \in Agrawala : AgrawalaLocalEvent(x)
    \/ \E x \in Agrawala : \E y \in Agrawala \ {x} : AgrawalaSync(x, y)
    \/ \E x \in Agrawala : AgrawalaRequest(x)
    \/ \E x \in Agrawala : AgrawalaRelease(x)
    \/ \E x \in Agrawala, pid \in Agrawala : AgrawalaDeferReplyTo(x, pid)
    \/ \E x \in Agrawala, ts \in 0 .. MaxAgrawalaTime, pid \in Agrawala :
           AgrawalaShouldDefer(x, ts, pid)
    \/ \E x \in Agrawala : AgrawalaGetDeferred(x)

AgrawalaSpec == AgrawalaInit /\ [][AgrawalaNext]_vars

\* ------------------------------------------------------------ fair runs
\* Every thread that can take a step eventually takes it: handlers reply
\* after a bounded delay, the poll of _wait_for_critical_section_access
\* repeats every 0.1 s, the critical section work ends.  Whether a client
\* makes another request is left open.
Fairness ==
    /\ \A p \in Launched : WF_vars(Requester(p))
    /\ \A q \in Launched, p \in Launched : WF_vars(Handler(q, p))

\* as Init (the processes of Launched run), with the clients' requests
\* bounded separately
FairInit ==
    /\ MutexInit
    /\ num_processes = NumProcesses
    /\ todo = MaxFairRequests
    /\ StandaloneIdle

FairSpec == FairInit /\ [][Next]_vars /\ Fairness

\* ---------------------------------------------------------------- claims
InQueue(p, x) == \E i \in 1 .. Len(request_queue[p]) : request_queue[p][i] = x

Outstanding(p, r) == r \in DOMAIN our_requests[p]

AllReplies(p, r) ==
    /\ r \in DOMAIN pending_replies[p]
    /\ (Running \ {p}) \subseteq pending_replies[p][r]

Holds(p, r) == in_critical_section[p] /\ current_resource[p] = r

Enters(p) == ~in_critical_section[p] /\ in_critical_section'[p]

\* C1: for every resource, at most one process is in the critical section
\* (in_critical_section with current_resource = that resource) at any instant.
C1_MutualExclusion ==
    \A p \in Proc, q \in Proc, r \in Resources :
        (Holds(p, r) /\ Holds(q, r)) => p = q

\* C2: under fair scheduling and no message loss, every process that calls
\* request_critical_section(r) eventually is in the critical section for r
\* (our_request is the record of the running call: it keeps r until the call
\* returns, which is after the critical section).
C2_Liveness ==
    \A p \in Launched :
        (pc[p] = "add_our_request") ~> Holds(p, our_request[p].resource_id)

\* a requester found the predicate false for a while: it sits in the wait
\* loop behind the record of a process that is in the critical section
C2_Witness ==
    \E p \in Proc, q \in Proc :
        /\ p # q
        /\ pc[p] = "wait"
        /\ AllReplies(p, our_request[p].resource_id)
        /\ ~can_enter_critical_section(p, our_request[p].resource_id)
        /\ Holds(q, our_request[p].resource_id)

\* C3: when a process enters the critical section for r, every other process
\* with an outstanding request for r that is smaller in the (timestamp,
\* process id) order has entered before it (and so holds r at that moment).
C3_EntryOrder ==
    [][\A p \in Proc, q \in Proc :
          (/\ p # q
           /\ Enters(p)
           /\ Outstanding(p, our_request[p].resource_id)
           /\ Outstanding(q, our_request[p].resource_id)
           /\ ReqLT(our_requests[q][our_request[p].resource_id],
                    our_requests[p][our_request[p].resource_id]))
          => Holds(q, our_request[p].resource_id)]_vars

\* C4: a process that called request_critical_section(r) while another one
\* held r cannot enter (its predicate is false, it is not admitted and not in
\* the critical section) before it has handled that holder's ReleaseEntry.
C4_BlockedUntilRelease ==
    \A p \in Proc :
        blocked_by[p] # {} =>
            /\ ~can_enter_critical_section(p, our_request[p].resource_id)
            /\ pc[p] \notin {"enter", "working"}
            /\ ~in_critical_section[p]

\* the late requester has all replies and waits, and the holder has already
\* left the critical section but its release has not been handled yet
C4_Witness ==
    \E p \in Proc, q \in Proc :
        /\ q \in blocked_by[p]
        /\ pc[p] = "wait"
        /\ AllReplies(p, our_request[p].resource_id)
        /\ ~in_critical_section[q]
        /\ pc[q] = "await_release_reply"

\* C5: at every step that sets in_critical_section, the own record is the
\* first element of the own queue and every other peer is in the reply set.
C5_AdmittedAtEntry ==
    [][\A p \in Proc :
          Enters(p) =>
              /\ Outstanding(p, our_request[p].resource_id)
              /\ request_queue[p] # <<>>
              /\ request_queue[p][1] = our_requests[p][our_request[p].resource_id]
              /\ AllReplies(p, our_request[p].resource_id)]_vars

\* C6: once a process has the replies of all peers, every outstanding request
\* of a peer that is ordered before its own is in its own queue.
C6_SmallerRequestsVisible ==
    \A p \in Proc, q \in Proc, r \in Resources, r2 \in Resources :
        (/\ p # q
         /\ Outstanding(p, r)
         /\ AllReplies(p, r)
         /\ Outstanding(q, r2)
         /\ ReqLT(our_requests[q][r2], our_requests[p][r]))
        => InQueue(p, our_requests[q][r2])

\* C7: from the last reply until the process leaves the critical section,
\* every peer's queue holds its record for r with its request timestamp.
C7_RecordAtEveryPeer ==
    \A p \in Proc, r \in Resources :
        (Outstanding(p, r) /\ AllReplies(p, r)) =>
            \A q \in Running \ {p} : InQueue(q, our_requests[p][r])

\* a process is in the critical section in its second cycle for a resource,
\* while the peer has an own request in its queue
C7_Witness ==
    \E p \in Proc, q \in Proc, r \in Resources :
        /\ p # q
        /\ Holds(p, r)
        /\ AllReplies(p, r)
        /\ our_requests[p][r].timestamp > 2
        /\ Len(request_queue[q]) = 2
        /\ InQueue(q, our_requests[p][r])

\* C8: between the clock update and the queue mutation of a handler, no
\* other thread of that process changes the process's clock or queue.
C8_HandlerAtomic ==
    [][\A q \in Proc, p \in Proc :
          (/\ handler[q][p].at \in {"add_request", "remove_request"}
           /\ handler'[q][p] = handler[q][p])
          => (clock'[q] = clock[q] /\ request_queue'[q] = request_queue[q])]_vars

\* C9: the values returned by successive tick/update calls on one clock are
\* strictly increasing, and no call decreases the counter.
C9_StrictlyIncreasing ==
    /\ (previous # -1 => returned > previous)
    /\ (calls > 0 => (time >= old_time /\ returned > old_time))

\* an update with a timestamp below the clock, after an earlier call
C9_Witness ==
    /\ calls = MaxCalls
    /\ previous # -1
    /\ received_time >= 0
    /\ received_time < old_time

\* C10: update(r) on a clock at c sets it to, and returns, c + 1 when r <= c
\* and r + 1 when r > c; LogicalClock and AgrawalaClock alike.
C10_UpdateRule ==
    (calls > 0 /\ received_time >= 0) =>
        /\ (received_time <= old_time =>
               (time = old_time + 1 /\ returned = old_time + 1))
        /\ (received_time > old_time =>
               (time = received_time + 1 /\ returned = received_time + 1))
        /\ agrawala_time = time

\* both branches were taken: the last update was given a larger timestamp
\* after an earlier call had moved the clock
C10_Witness ==
    /\ calls >= 2
    /\ received_time > old_time
    /\ old_time > 0

\* C11: when several threads call tick and update on one LogicalClock, no two
\* calls return the same value, each call returns more than the clock held
\* when it was called, and the clock has advanced by at least the number of
\* calls that returned.
C11_AtomicTickUpdate ==
    /\ \A i \in 1 .. Len(returns), j \in 1 .. Len(returns) :
           i # j => returns[i].value # returns[j].value
    /\ \A i \in 1 .. Len(returns) : returns[i].value > returns[i].before
    /\ time >= initial_time + Len(returns)

\* every call has returned, and a call of one thread waited for the lock
\* while the other thread was between its read and its write
C11_Witness ==
    /\ Len(returns) = MaxThreadCalls
    /\ \E i \in 1 .. Len(returns) : returns[i].value > returns[i].before + 1
    /\ \E i \in 1 .. Len(returns) - 1 : returns[i].thread # returns[i + 1].thread

\* C12: a timestamp obtained by tick on one process's clock and given to
\* another process's update makes that update return a strictly greater
\* value, and the timestamps of the events of each process, so of every
\* chain of sends and receives, strictly increase.
C12_ClockCondition ==
    \A x \in Clocks :
        /\ \A i \in 1 .. Len(history[x]) :
               history[x][i].kind = "RECEIVED" =>
                   /\ history[x][i].time > history[x][i].msg_ts
                   /\ \E k \in 1 .. Len(history[history[x][i].sender]) :
                          /\ history[history[x][i].sender][k].kind = "LOCAL"
                          /\ history[history[x][i].sender][k].time =
                                 history[x][i].msg_ts
        /\ \A i \in 1 .. Len(history[x]) - 1 :
               history[x][i + 1].time > history[x][i].time

\* the chain A->B, B->C, C->A has been walked: A's clock was moved past its
\* own send by the timestamp that came back from C
C12_Witness ==
    \E i \in 1 .. Len(history["B"]), j \in 1 .. Len(history["C"]),
       k \in 1 .. Len(history["A"]) :
        /\ history["B"][i].kind = "RECEIVED" /\ history["B"][i].sender = "A"
        /\ history["C"][j].kind = "RECEIVED" /\ history["C"][j].sender = "B"
        /\ history["C"][j].msg_ts > history["B"][i].time
        /\ history["A"][k].kind = "RECEIVED" /\ history["A"][k].sender = "C"
        /\ history["A"][k].msg_ts > history["C"][j].time

SameOrderKey(a, b) == a.timestamp = b.timestamp /\ a.process_id = b.process_id

\* C13 as stated: __lt__ is a strict total order on records: of two distinct
\* records exactly one is smaller than the other, no record is smaller than
\* itself, and a < b and b < c give a < c.
C13_StrictTotalOrder ==
    compared # NoComparison =>
        /\ (compared.a # compared.b => (compared.ab # compared.ba))
        /\ ~compared.aa
        /\ ((compared.ab /\ compared.bc) => compared.ac)

\* C13 amended: __lt__ is a strict order that is total on (timestamp,
\* process_id): of two records that differ there exactly one is smaller, two
\* records that agree there (whatever their resource) are not ordered, no
\* record is smaller than itself, and a < b and b < c give a < c.
C13_StrictOrderOnKeys ==
    compared # NoComparison =>
        /\ (~SameOrderKey(compared.a, compared.b) => (compared.ab # compared.ba))
        /\ (SameOrderKey(compared.a, compared.b) => (~compared.ab /\ ~compared.ba))
        /\ ~compared.aa
        /\ ((compared.ab /\ compared.bc) => compared.ac)

\* a chain a < b < c in which the first step is decided by the process id
C13_Witness ==
    /\ compared.ab
    /\ compared.bc
    /\ compared.a.timestamp = compared.b.timestamp
    /\ compared.a.resource_id # compared.b.resource_id

HasKey(q, p, r) == \E i \in 1 .. Len(q) : SameKey(q[i], p, r)

\* C14 as stated: for every queue content and every record, add_request of
\* the record followed by remove_request of its (process_id, resource_id)
\* leaves the queue with exactly the content it had before the insert.
C14_AddRemoveRestores ==
    (qcall.op = "remove_request" /\ qcall.after_add) => queue = qcall.before

\* C14 amended: add_request of a record followed by remove_request of its
\* (process_id, resource_id) restores the content before the insert when the
\* queue held no record of that key; when it held one, that record is gone
\* too and the queue is one record shorter than before the insert.
C14_AddRemoveRestoresFreshKey ==
    (qcall.op = "remove_request" /\ qcall.after_add) =>
        IF HasKey(qcall.before, qcall.request.process_id,
                  qcall.request.resource_id)
        THEN /\ queue # qcall.before
             /\ Len(queue) = Len(qcall.before) - 1
             /\ ~HasKey(queue, qcall.request.process_id,
                        qcall.request.resource_id)
        ELSE queue = qcall.before

\* a record of a fresh key went in between two others and out again
C14_Witness ==
    /\ qcall.op = "remove_request"
    /\ qcall.after_add
    /\ Len(qcall.before) >= 2
    /\ ~HasKey(qcall.before, qcall.request.process_id,
               qcall.request.resource_id)
    /\ queue = qcall.before

\* C15: after any sequence of add_request and remove_request calls the queue
\* holds at most one record per (process_id, resource_id) - an inserted
\* record is in the queue and is the only one of its key - and the queue is
\* ascending in the Request order, so no record is smaller than the first.
C15_UniqueAndSorted ==
    /\ \A i \in 1 .. Len(queue), j \in 1 .. Len(queue) :
           (i # j) => ~SameKey(queue[i], queue[j].process_id,
                               queue[j].resource_id)
    /\ \A i \in 1 .. Len(queue), j \in 1 .. Len(queue) :
           (i < j) => ~ReqLT(queue[j], queue[i])
    /\ \A i \in 1 .. Len(queue) : ~ReqLT(queue[i], queue[1])
    /\ (qcall.op = "add_request" =>
           \E i \in 1 .. Len(queue) : queue[i] = qcall.request)

\* an insert replaced the record of its key by one with another timestamp,
\* which moved it behind a record of another process
C15_Witness ==
    /\ qcall.op = "add_request"
    /\ HasKey(qcall.before, qcall.request.process_id,
              qcall.request.resource_id)
    /\ Len(queue) >= 2
    /\ queue[1] # qcall.request
    /\ qcall.before[1].process_id = qcall.request.process_id
    /\ qcall.before[1].resource_id = qcall.request.resource_id

\* C16: replies are never deferred: a RequestEntry handler can always take
\* its next step, whatever the receiver's state, and the reply it returns
\* has granted = true, is produced with the request's record in the
\* receiver's queue, and has a timestamp greater than the request's.
C16_NeverDeferred ==
    \A q \in Running, p \in Running :
        handler[q][p].op = "RequestEntry" =>
            /\ (handler[q][p].at # "returned" => ENABLED Handler(q, p))
            /\ (handler[q][p].at = "returned" =>
                   /\ handler[q][p].granted
                   /\ InQueue(q, Request(handler[q][p].timestamp, p,
                                         handler[q][p].resource_id))
                   /\ handler[q][p].reply_timestamp > handler[q][p].timestamp)

\* the receiver granted a request for the resource it holds at that moment
C16_Witness ==
    \E q \in Proc, p \in Proc :
        /\ handler[q][p].op = "RequestEntry"
        /\ handler[q][p].at = "returned"
        /\ handler[q][p].granted
        /\ Holds(q, handler[q][p].resource_id)

\* C17: without message loss, from the end of the owner's _broadcast_release
\* for a resource until the owner requests that resource again (so whenever
\* the owner has no call running for it), no process's queue, the owner's or
\* a peer's, holds a record of (owner, resource).
C17_ReleasedEverywhere ==
    \A p \in Proc, r \in Resources :
        our_request[p].resource_id # r =>
            \A q \in Proc : ~HasKey(request_queue[q], p, r)

\* the owner has finished a cycle and is idle, while the peer works in the
\* critical section on its first request and has its record in both queues
C17_Witness ==
    \E p \in Proc, q \in Proc :
        /\ p # q
        /\ pc[p] = "idle"
        /\ pc[q] = "working"
        /\ our_request[q].timestamp = 1
        /\ todo = MaxRequests - 2
        /\ InQueue(p, our_request[q])
        /\ InQueue(q, our_request[q])

\* C18: when request_critical_section has returned the process is idle:
\* not in the critical section, no current resource, no entry in
\* our_requests or pending_replies and no own record in its own queue.
C18_IdleAfterCycle ==
    \A p \in Proc :
        pc[p] = "idle" =>
            /\ ~in_critical_section[p]
            /\ current_resource[p] = None
            /\ \A r \in Resources :
                   /\ r \notin DOMAIN our_requests[p]
                   /\ r \notin DOMAIN pending_replies[p]
                   /\ ~HasKey(request_queue[p], p, r)

\* every request of the run has been made and every call has returned
C18_Witness ==
    /\ todo = 0
    /\ \A p \in Running : pc[p] = "idle" /\ clock[p] > 0
    /\ \A q \in Running, p \in Running : handler[q][p] = IdleHandler

\* the peers the broadcast loop of p is done with
Done(p) == {peer_ports(p)[i] : i \in 1 .. (peer_index[p] - 1)}

RepliesOf(p) ==
    IF our_request[p].resource_id \in DOMAIN pending_replies[p]
    THEN pending_replies[p][our_request[p].resource_id]
    ELSE {}

\* C19: when the RequestEntry call to a peer has raised, that peer is not in
\* the reply set, the broadcast goes on to its end and to the wait loop
\* without an error, and the requester does not get out of the wait loop:
\* the predicate is false, it is never admitted nor in the critical section,
\* and its record stays in its own queue and in the queues of the peers
\* that replied.
C19_FailedRequestBlocks ==
    \A p \in Proc :
        /\ pc[p] \in {"enter", "working", "broadcast_release"} => failed[p] = {}
        /\ (/\ failed[p] # {}
            /\ pc[p] \in {"broadcast_request", "await_request_reply",
                           "add_reply", "wait"})
           => /\ failed[p] \cap RepliesOf(p) = {}
              /\ ~can_enter_critical_section(p, our_request[p].resource_id)
              /\ ~in_critical_section[p]
              /\ (peer_index[p] > Len(peer_ports(p)) => pc[p] = "wait")
              /\ InQueue(p, our_request[p])
              /\ \A q \in RepliesOf(p) : InQueue(q, our_request[p])

\* the second peer could not be reached: the requester waits with the reply
\* of the first, its own record first in its queue
C19_Witness ==
    \E p \in Proc :
        /\ pc[p] = "wait"
        /\ failed[p] = {peer_ports(p)[2]}
        /\ RepliesOf(p) = {peer_ports(p)[1]}
        /\ request_queue[p][1] = our_request[p]
        /\ InQueue(peer_ports(p)[1], our_request[p])

\* C20: a call that raises does not end the fan-out.  In _broadcast_request
\* every peer the loop is done with either raised or has the record in its
\* queue and its reply applied (reply set, clock moved past the reply), and
\* the loop is done with every peer when the wait begins; in
\* _broadcast_release every peer the loop is done with either raised or has
\* dropped the record and has its reply applied, the last peer included.
C20_FanOutContinues ==
    /\ [](\A p \in Proc :
            /\ pc[p] \in {"broadcast_request", "wait"} =>
                   /\ RepliesOf(p) = Done(p) \ failed[p]
                   /\ \A q \in RepliesOf(p) : InQueue(q, our_request[p])
                   /\ (RepliesOf(p) # {} =>
                          clock[p] >= our_request[p].timestamp + 3)
            /\ pc[p] = "wait" => Done(p) = Running \ {p}
            /\ pc[p] = "send_release" =>
                   /\ \A q \in Done(p) \ failed[p] :
                          ~HasKey(request_queue[q], p, our_request[p].resource_id)
                   /\ (Done(p) \ failed[p] # {} =>
                          clock[p] >= release_timestamp[p] + 3))
    /\ [][\A p \in Proc :
             (pc[p] \in {"send_release", "await_release_reply"} /\ pc'[p] = "idle")
             => /\ Done(p) \cup {Peer(p)} = Running \ {p}
                /\ (Peer(p) \notin failed'[p] =>
                       /\ ~HasKey(request_queue'[Peer(p)], p,
                                  our_request[p].resource_id)
                       /\ clock'[p] >= release_timestamp[p] + 3)]_vars

\* the release could not be given to the first peer, which keeps the record,
\* and was still given to the second, which dropped it
C20_Witness ==
    \E p \in Proc :
        /\ pc[p] = "idle"
        /\ failed[p] = {peer_ports(p)[1]}
        /\ \E r \in Resources : HasKey(request_queue[peer_ports(p)[1]], p, r)
        /\ request_queue[peer_ports(p)[2]] = <<>>
        /\ clock[peer_ports(p)[2]] >= 5

\* the step in which the GetStatus handler of p builds its response
Responds(p) ==
    /\ status.at = "respond"
    /\ status.process = p
    /\ status'.at = "returned"

\* the step in which the GetStatus handler of p copies the queue
Snapshots(p) ==
    /\ status.at = "pending"
    /\ status.process = p
    /\ status'.at = "respond"

\* C21 as stated: GetStatus on a process that is idle (not in the critical
\* section, no own request outstanding; here: at every read of the call)
\* returns in_critical_section = false and an empty pending_requests list;
\* on a process in the critical section it returns in_critical_section = true.
C21_StatusOfIdleIsEmpty ==
    [][\A p \in Proc :
          Responds(p) =>
              /\ (status'.idle =>
                     (~status'.in_critical_section /\ status'.pending = <<>>))
              /\ (status'.holding => status'.in_critical_section)]_vars

\* C21 amended: GetStatus on an idle process returns in_critical_section =
\* false and a pending_requests list without a record of the process itself:
\* the list is empty when its queue is empty and otherwise names the requests
\* received from peers; on a process in the critical section it returns
\* in_critical_section = true.
C21_StatusOfIdleHasNoOwnRecord ==
    [][\A p \in Proc :
          /\ Responds(p) =>
                 /\ (status'.idle =>
                        /\ ~status'.in_critical_section
                        /\ \A i \in 1 .. Len(status'.pending) :
                               status'.pending[i][1] # p)
                 /\ (status'.holding => status'.in_critical_section)
          /\ Snapshots(p) =>
                 /\ (request_queue[p] = <<>> => status'.pending = <<>>)
                 /\ (request_queue[p] # <<>> => status'.pending # <<>>)]_vars

\* a process was asked while it held the resource and answered true, its
\* own record in the list
C21_Witness ==
    /\ status.at = "returned"
    /\ status.holding
    /\ status.in_critical_section
    /\ Holds(status.process, "ResourceA")
    /\ Len(status.pending) = 1
    /\ status.pending[1][1] = status.process

\* C22: the steps of GetStatus change nothing of the process but its clock,
\* which the first step advances by one (the value the response carries);
\* queue, our_requests, pending_replies, in_critical_section and
\* current_resource stay as they are, and the list returned names the
\* records of the queue in queue order.
C22_StatusFrame ==
    [][status' # status =>
          /\ request_queue' = request_queue
          /\ our_requests' = our_requests
          /\ pending_replies' = pending_replies
          /\ in_critical_section' = in_critical_section
          /\ current_resource' = current_resource
          /\ \A p \in Proc :
                 /\ (status.at = "none" /\ status'.process = p) =>
                        /\ clock'[p] = clock[p] + 1
                        /\ status'.current_timestamp = clock'[p]
                        /\ \A q \in Proc \ {p} : clock'[q] = clock[q]
                 /\ Snapshots(p) =>
                        /\ Len(status'.pending) = Len(request_queue[p])
                        /\ \A i \in 1 .. Len(request_queue[p]) :
                               status'.pending[i] =
                                   <<request_queue[p][i].process_id,
                                     request_queue[p][i].resource_id,
                                     request_queue[p][i].timestamp>>
          /\ (status.at # "none" => clock' = clock)]_vars

\* a query answered by a waiting process whose queue holds its own record,
\* with the clock one past the request's timestamp by the query's tick
C22_Witness ==
    /\ status.at = "returned"
    /\ pc[status.process] = "wait"
    /\ Len(status.pending) = 1
    /\ Len(request_queue[status.process]) = 1
    /\ status.current_timestamp = 2

\* C23: should_defer_reply(other_timestamp, other_process_id) returns False
\* when the clock has no request outstanding, and otherwise True exactly when
\* (own request timestamp, own id) is smaller than (other_timestamp,
\* other_process_id): the smaller timestamp, or the smaller id on equal
\* timestamps.  With A's request at 1 and B's at 3, A defers its reply to B
\* and B does not defer its reply to A.
C23_ShouldDeferRule ==
    acall.op = "should_defer_reply" =>
        LET c == agrawala[acall.clock]
        IN /\ (c.request_timestamp = <<>> => ~acall.result)
           /\ (c.request_timestamp # <<>> =>
                  (acall.result <=>
                      \/ c.request_timestamp[1] < acall.other_timestamp
                      \/ /\ c.request_timestamp[1] = acall.other_timestamp
                         /\ acall.clock < acall.other_process_id))
           /\ ((/\ acall.clock = 1
                /\ c.request_timestamp = <<1>>
                /\ acall.other_timestamp = 3
                /\ acall.other_process_id = 2) => acall.result)
           /\ ((/\ acall.clock = 2
                /\ c.request_timestamp = <<3>>
                /\ acall.other_timestamp = 1
                /\ acall.other_process_id = 1) => ~acall.result)

\* A requested at 1, B synchronised with that request and requested at 3,
\* and A is asked about B's request
C23_Witness ==
    /\ agrawala[1].request_timestamp = <<1>>
    /\ agrawala[2].request_timestamp = <<3>>
    /\ acall.op = "should_defer_reply"
    /\ acall.clock = 1
    /\ acall.other_timestamp = 3
    /\ acall.other_process_id = 2
    /\ acall.result

\* C24: release_critical_section leaves the clock value as it is, clears
\* request_timestamp and empties the deferred set; from then on the timestamp
\* stays cleared until request_critical_section is called, so that
\* should_defer_reply returns False for every input, and the set stays empty
\* until defer_reply_to is called, so that get_deferred_replies returns an
\* empty list.
C24_ReleaseClears ==
    /\ [][\A x \in Agrawala :
             /\ (/\ acalls' # acalls
                 /\ acall'.op = "release_critical_section"
                 /\ acall'.clock = x)
                => /\ agrawala'[x].time = agrawala[x].time
                   /\ agrawala'[x].request_timestamp = <<>>
                   /\ agrawala'[x].deferred_replies = {}
             /\ (/\ agrawala[x].request_timestamp = <<>>
                 /\ agrawala'[x].request_timestamp # <<>>)
                => (acall'.op = "request_critical_section" /\ acall'.clock = x)
             /\ (/\ agrawala[x].deferred_replies = {}
                 /\ agrawala'[x].deferred_replies # {})
                => (acall'.op = "defer_reply_to" /\ acall'.clock = x)]_vars
    /\ [](\A x \in Agrawala :
             (acall.clock = x /\ agrawala[x].request_timestamp = <<>>) =>
                 /\ (acall.op = "should_defer_reply" => ~acall.result)
                 /\ ((acall.op = "get_deferred_replies"
                      /\ agrawala[x].deferred_replies = {}) => acall.list = <<>>))

\* a clock that requested at 1 and deferred a reply has been released
C24_Witness ==
    \E x \in Agrawala :
        /\ acalls = 3
        /\ acall.op = "release_critical_section"
        /\ acall.clock = x
        /\ agrawala[x] = [time |-> 1,
                          history |-> <<<<1, "request">>, <<1, "release">>>>,
                          request_timestamp |-> <<>>,
                          deferred_replies |-> {}]
        /\ \A y \in Agrawala \ {x} : agrawala[y] = NewAgrawala

C26_ReleaseEntryFrame ==
    [][/\ \A q \in Proc, p \in Proc :
             (/\ handler[q][p].op = "ReleaseEntry"
              /\ handler[q][p].at \in {"update", "remove_request", "reply"}
              /\ handler'[q][p] # handler[q][p])
             => /\ in_critical_section' = in_critical_section
                /\ current_resource' = current_resource
                /\ our_requests' = our_requests
                /\ pending_replies' = pending_replies
                /\ pc' = pc
                /\ (handler[q][p].at = "update" =>
                       /\ clock'[q] = Max(clock[q], handler[q][p].timestamp) + 1
                       /\ request_queue' = request_queue)
                /\ (handler[q][p].at = "remove_request" =>
                       /\ clock' = clock
                       /\ ~HasKey(request_queue'[q], p, handler[q][p].resource_id)
                       /\ \A i \in 1 .. Len(request_queue[q]) :
                              SameKey(request_queue[q][i], p,
                                      handler[q][p].resource_id)
                              \/ \E j \in 1 .. Len(request_queue'[q]) :
                                     request_queue'[q][j] = request_queue[q][i]
                       /\ Len(request_queue'[q]) >= Len(request_queue[q]) - 1)
                /\ (handler[q][p].at = "reply" =>
                       /\ clock'[q] = clock[q] + 1
                       /\ handler'[q][p].reply_timestamp = clock'[q]
                       /\ request_queue' = request_queue)
       /\ \A q \in Proc :
             Enters(q) => (pc[q] = "enter" /\ pc'[q] = "working")]_vars

\* the handler's check found the predicate true for the waiting receiver,
\* which has not entered: its wait loop will
C26_Witness ==
    \E q \in Proc, p \in Proc :
        /\ handler[q][p].op = "ReleaseEntry"
        /\ handler[q][p].at = "reply"
        /\ pc[q] = "wait"
        /\ can_enter_critical_section(q, our_request[q].resource_id)
        /\ ~in_critical_section[q]
        /\ current_resource[q] = None

\* the records of q for resource r, in queue order
OfResource(q, r) ==
    LET ForR(x) == x.resource_id = r
    IN SelectSeq(q, ForR)

\* C27: a record for another resource never keeps the admission predicate
\* false: a process that is not in the critical section, has the replies of
\* all peers for its request for r, and whose own record is the first of the
\* records for r in its queue, has a true predicate for r.
C27_ResourcesIndependent ==
    \A p \in Proc, r \in Resources :
        (/\ Outstanding(p, r)
         /\ AllReplies(p, r)
         /\ ~in_critical_section[p]
         /\ OfResource(request_queue[p], r) # <<>>
         /\ OfResource(request_queue[p], r)[1] = our_requests[p][r])
        => can_enter_critical_section(p, r)

\* C28: in every state, between the steps of the handlers and of the
\* requester too, no record of a process's queue has a timestamp above the
\* process's clock, and a record received from a peer has one below it.
C28_QueueBehindClock ==
    \A q \in Proc :
        \A i \in 1 .. Len(request_queue[q]) :
            /\ request_queue[q][i].timestamp <= clock[q]
            /\ (request_queue[q][i].process_id # q =>
                   request_queue[q][i].timestamp < clock[q])

\* a handler is between its insert and its reply: the peer's record is in
\* the queue, one below the clock, behind the own record
C28_Witness ==
    \E q \in Proc, p \in Proc :
        /\ p # q
        /\ handler[q][p].op = "RequestEntry"
        /\ handler[q][p].at = "reply"
        /\ clock[q] = handler[q][p].timestamp + 1
        /\ Len(request_queue[q]) = 2
        /\ request_queue[q][2] =
               Request(handler[q][p].timestamp, p, handler[q][p].resource_id)
        /\ request_queue[q][1].process_id = q

\* C29: in every state in_critical_section is true exactly when
\* current_resource is set; a process holds at most one resource; and while
\* it holds r its record for r is in our_requests and, once, in its own
\* queue, whatever RequestEntry and ReleaseEntry calls of peers it has served.
C29_HolderKeepsRecord ==
    \A p \in Proc :
        /\ in_critical_section[p] <=> current_resource[p] # None
        /\ Cardinality({r \in Resources : Holds(p, r)}) <= 1
        /\ \A r \in Resources :
               Holds(p, r) =>
                   /\ r \in DOMAIN our_requests[p]
                   /\ our_requests[p][r].process_id = p
                   /\ our_requests[p][r].resource_id = r
                   /\ InQueue(p, our_requests[p][r])
                   /\ Cardinality({i \in 1 .. Len(request_queue[p]) :
                          SameKey(request_queue[p][i], p, r)}) = 1

\* the holder has served a peer's RequestEntry for the resource it holds:
\* the peer's record is behind its own
C29_Witness ==
    \E p \in Proc, q \in Proc, r \in Resources :
        /\ p # q
        /\ Holds(p, r)
        /\ Len(request_queue[p]) = 2
        /\ request_queue[p][1] = our_requests[p][r]
        /\ request_queue[p][2].process_id = q
        /\ request_queue[p][2].resource_id = r
        /\ handler[p][q].op = "RequestEntry"
        /\ handler[p][q].at = "returned"

\* the records in the queue of q
QueueRecords(q) == {request_queue[q][i] : i \in 1 .. Len(request_queue[q])}

\* a record of a peer in the queue of q whose release did not reach q: its
\* owner's call is over, or has gone on to the next peer after the raise
Stale(q, x) ==
    /\ x \in QueueRecords(q)
    /\ x.process_id # q
    /\ \/ our_request[x.process_id] # x
       \/ /\ pc[x.process_id] = "send_release"
          /\ q \in failed[x.process_id]

\* the request of q for r is ordered after a stale record in its queue
BehindStale(q, r) ==
    /\ r \in DOMAIN our_requests[q]
    /\ \E x \in QueueRecords(q) : Stale(q, x) /\ ReqLT(x, our_requests[q][r])

\* can_enter_critical_section(q, r) in the state the step leads to
AdmissibleNext(q, r) ==
    /\ ~in_critical_section'[q]
    /\ r \in DOMAIN our_requests'[q]
    /\ request_queue'[q] # <<>>
    /\ request_queue'[q][1] = our_requests'[q][r]
    /\ r \in DOMAIN pending_replies'[q] =>
           expected_replies(q) \subseteq pending_replies'[q][r]

\* the handler of q serving p executes its remove_request
RemovesFor(q, p) ==
    /\ handler[q][p].op = "ReleaseEntry"
    /\ handler[q][p].at = "remove_request"
    /\ handler'[q][p].at = "reply"

\* the handler of q serving p executes its add_request
AddsFor(q, p) ==
    /\ handler[q][p].op = "RequestEntry"
    /\ handler[q][p].at = "add_request"
    /\ handler'[q][p].at = "reply"

\* C30 as stated: a request ordered after a stale record becomes admissible
\* only by a step in which the peer serves a ReleaseEntry of the owner of a
\* stale record, that is, when a later release of that process reaches it.
C30_StaleBlocksUntilRelease ==
    [][\A q \in Proc, r \in Resources :
           BehindStale(q, r) /\ AdmissibleNext(q, r) =>
               \E p \in Proc \ {q} : RemovesFor(q, p)]_vars

\* C30: a ReleaseEntry call that raises leaves every queue as it is and the
\* releasing process goes on, idle after the last peer; a request of the peer
\* ordered after the record left behind is not admissible while that record
\* is in the queue; the record leaves the queue only when the peer serves a
\* later call of its owner for the same resource, a RequestEntry, which
\* replaces it by the newer record, or a ReleaseEntry, which removes it; and
\* the blocked request becomes admissible only by such a step, in the first
\* case with the newer record ordered after it.
C30_StaleBlocksUntilReplaced ==
    /\ [](\A q \in Proc, r \in Resources :
              BehindStale(q, r) => ~can_enter_critical_section(q, r))
    /\ [][/\ \A p \in Proc :
                 pc[p] = "send_release" /\ failed'[p] # failed[p] =>
                     /\ request_queue' = request_queue
                     /\ ~in_critical_section'[p]
                     /\ DOMAIN our_requests'[p] = {}
                     /\ peer_index[p] + 1 > Len(peer_ports(p)) =>
                            pc'[p] = "idle"
          /\ \A q \in Proc : \A x \in QueueRecords(q) :
                 (/\ Stale(q, x)
                  /\ \A j \in 1 .. Len(request_queue'[q]) :
                         request_queue'[q][j] # x) =>
                     /\ handler[q][x.process_id].resource_id = x.resource_id
                     /\ our_request[x.process_id].resource_id = x.resource_id
                     /\ our_request[x.process_id].timestamp > x.timestamp
                     /\ \/ RemovesFor(q, x.process_id)
                        \/ /\ AddsFor(q, x.process_id)
                           /\ \E j \in 1 .. Len(request_queue'[q]) :
                                  request_queue'[q][j] =
                                      our_request[x.process_id]
          /\ \A q \in Proc, r \in Resources :
                 BehindStale(q, r) /\ AdmissibleNext(q, r) =>
                     \E p \in Proc \ {q} :
                         \/ RemovesFor(q, p)
                         \/ /\ AddsFor(q, p)
                            /\ ReqLT(our_requests[q][r], our_request[p])
       ]_vars

\* the release of p did not reach q and p is idle; q has all replies for its
\* own request, polls, and the record of p is ahead of its own
C30_Witness ==
    \E p \in Proc, q \in Proc, r \in Resources :
        /\ p # q
        /\ pc[p] = "idle"
        /\ q \in failed[p]
        /\ pc[q] = "wait"
        /\ BehindStale(q, r)
        /\ expected_replies(q) \subseteq pending_replies[q][r]
        /\ request_queue[q][1].process_id = p

\* what y answers when it is asked about the outstanding request of x
DefersTo(y, x) ==
    should_defer_reply(agrawala[y], y, agrawala[x].request_timestamp[1], x)

\* C31: when two AgrawalaClock objects with different process ids both have
\* a request outstanding, exactly one of them defers its reply to the other:
\* the two should_defer_reply results, each asked about the other's request
\* timestamp and id, differ; so a call that has just returned its result is
\* the negation of what the other clock answers.
C31_ExactlyOneDefers ==
    \A x \in Agrawala, y \in Agrawala :
        (/\ x # y
         /\ agrawala[x].request_timestamp # <<>>
         /\ agrawala[y].request_timestamp # <<>>) =>
            /\ DefersTo(x, y) # DefersTo(y, x)
            /\ (/\ acall.op = "should_defer_reply"
                /\ acall.clock = x
                /\ acall.other_process_id = y
                /\ acall.other_timestamp = agrawala[y].request_timestamp[1])
               => acall.result = ~DefersTo(y, x)

\* both clocks requested at the same timestamp, and the one with the larger
\* id was asked about the other's request: it does not defer
C31_Witness ==
    \E x \in Agrawala, y \in Agrawala :
        /\ x < y
        /\ agrawala[x].request_timestamp # <<>>
        /\ agrawala[y].request_timestamp = agrawala[x].request_timestamp
        /\ acall.op = "should_defer_reply"
        /\ acall.clock = y
        /\ acall.other_process_id = x
        /\ acall.other_timestamp = agrawala[x].request_timestamp[1]
        /\ ~acall.result
        /\ DefersTo(x, y)

\* C32: the history of a LogicalClockWithHistory called by several threads
\* holds one entry for every call that has returned, and its timestamps
\* strictly increase along the list.
C32_HistoryInOrder ==
    /\ Len(clock_history) = Len(returns)
    /\ calls = Len(clock_history)
               + Cardinality({t \in Threads : thread[t].at # "ready"})
    /\ \A i \in 1 .. Len(clock_history), j \in 1 .. Len(clock_history) :
           i < j => clock_history[i].time < clock_history[j].time
=============================================================================
